---- MODULE Spec2Model ----
(***************************************************************************)
(* Deployment orchestrator of the model proxy server                        *)
(* (src/model-proxy-server/services/user_service.py, class UserService,     *)
(* with the loader of services/model_service.py and the readiness check of   *)
(* services/inference_service.py).                                           *)
(*                                                                         *)
(* The server runs on one asyncio event loop: the code between two awaits   *)
(* that suspend runs atomically.  create_deployment, stop_deployment and    *)
(* delete_deployment contain no suspending await (the awaited                *)
(* _get_external_ip makes a blocking call), so each is one action.  The     *)
(* only await of the background task _load_user_model is the call of the    *)
(* Model Runtime (model_loader.load_model); the task is modelled as the      *)
(* step before that await (load_user_model_start) and the step after it     *)
(* (load_user_model_success / load_user_model_failure), between which other *)
(* handlers may run.  A task created by asyncio.create_task starts only     *)
(* when the event loop gets to it, so other handlers may also run between   *)
(* create_deployment and load_user_model_start.                              *)
(*                                                                         *)
(* The HTTP layer of app.py is modelled by the answer each endpoint gives    *)
(* in the current state (the operators ..._response); settings.enable_auth  *)
(* is an input of each request, since it can be changed while the server    *)
(* runs.  A chat completion suspends only while its generation runs in the  *)
(* executor: chat_completion_start is the request up to that await,         *)
(* chat_completion_done the part after it.  Spec is the orchestrator alone, *)
(* ChatSpec the orchestrator with chat completions in flight.               *)
(*                                                                         *)
(* model_proxy_server.py is a second server, complete in one file, with its *)
(* own globals USER_DEPLOYMENTS and ACTIVE_MODELS; SingleFileSpec is that    *)
(* server, and its definitions carry the prefix mps_ where the name is       *)
(* already used for the server of app.py.                                    *)
(*                                                                         *)
(* datetime.now() is a logical clock that advances at every record           *)
(* creation; updated_at is not modelled.                                     *)
(***************************************************************************)
EXTENDS Integers, FiniteSets, Sequences, TLC

VARIABLES
    deployments,    \* UserService.deployments: user_id -> UserDeployment
    active_models,  \* UserService.active_models: user_id -> model_data
    tasks,          \* the _load_user_model tasks created and not yet finished
    clock,          \* datetime.now(), also the identity of the latest record
    keys_issued,    \* number of tokens drawn by generate_api_key
    uuids_issued,   \* number of ids drawn by generate_user_id
    stop_seen,      \* history: the tasks in flight that have seen a stop of their user
    chats,          \* the chat completions received: generating in the executor, or done
    request_count,  \* InferenceService.request_count
    USER_DEPLOYMENTS,   \* model_proxy_server.py line 34: user_id -> deployment dict
    ACTIVE_MODELS,      \* model_proxy_server.py line 35: user_id -> model_data
    background_tasks,   \* the load_user_model tasks added and not yet run
    deploy_calls        \* number of deploy-model requests the single-file server has handled

registry == <<deployments, active_models, tasks, clock, keys_issued, uuids_issued, stop_seen>>
inference == <<chats, request_count>>
single_file == <<USER_DEPLOYMENTS, ACTIVE_MODELS, background_tasks, deploy_calls>>
vars == <<deployments, active_models, tasks, clock, keys_issued, uuids_issued, stop_seen,
          chats, request_count,
          USER_DEPLOYMENTS, ACTIVE_MODELS, background_tasks, deploy_calls>>

(* ------------------------------ bounds -------------------------------- *)

\* number of deployment records created (and of load tasks scheduled)
MaxCreates == 2

\* caller-supplied user ids
UserIds == {"u1"}

\* the ids generate_user_id returns, in order
GeneratedIds == <<"g1">>

\* the chat completion requests received, each once
ChatIds == {"c1"}

\* the message lists of the chat completion requests tried; a text is the sequence
\* of its characters
MessageLists ==
    {<<[role |-> "user", content |-> <<"h", "i">>]>>,
     <<[role |-> "user", content |-> <<" ", "a", " ", " ", "b", "\n">>]>>,
     <<[role |-> "system", content |-> <<"b", "e", "\n", "o", "k">>],
       [role |-> "user", content |-> <<"a", " ", "b", " ", "c">>]>>,
     <<[role |-> "user", content |-> <<"q", "?">>],
       [role |-> "assistant", content |-> <<" ">>],
       [role |-> "user", content |-> <<"a", "\n", "\n", "b">>]>>}

\* the texts the generation returns, after the strip() of lines 132 and 182
ResponseTexts ==
    {<<>>, <<"o", "k">>, <<"a", " ", "b">>, <<"a", "\n", " ", "b", " ", " ", "c">>}

\* the deploy requests tried: <<model_name, backend, api_key_enabled, custom_config>>,
\* custom_config being absent ("None") or a mapping
DeployRequests ==
    {<<"m1", "transformers", TRUE, "None">>,
     <<"m1", "jax", FALSE, "cfg">>,
     <<"m2", "vllm", TRUE, "cfg">>,
     <<"m2", "transformers", FALSE, "None">>}

(* ------------------------------ models.py ----------------------------- *)

PENDING == "pending"
DEPLOYING == "deploying"
READY == "ready"
ERROR == "error"
STOPPED == "stopped"

DeploymentStatus == {PENDING, DEPLOYING, READY, ERROR, STOPPED}

TRANSFORMERS == "transformers"
JAX == "jax"
VLLM == "vllm"

ModelBackend == {TRANSFORMERS, JAX, VLLM}

\* Optional fields that are None
NoUser == "None"
NoKey == 0
NoTime == 0
NoError == "None"

\* line 59 of user_service.py: the base url, made of the address of the host and user_id
BaseUrl(user_id) == <<"http://host/user", user_id, "v1">>

\* UserDeployment(...) as built by create_deployment: the fields not passed
\* take their defaults (created_at = now, loaded_at = None, error_message = None)
UserDeployment(user_id, model_name, backend, status, api_key, api_key_enabled, custom_config, now) ==
    [user_id |-> user_id,
     model_name |-> model_name,
     backend |-> backend,
     status |-> status,
     api_key |-> api_key,
     api_key_enabled |-> api_key_enabled,
     base_url |-> BaseUrl(user_id),
     created_at |-> now,
     loaded_at |-> NoTime,
     error_message |-> NoError,
     custom_config |-> custom_config]

\* an exception e leaving a call in place of its value
Raised(e) == [raised |-> e]

\* ChatMessage(role=role, content=content), lines 42-45: the constructor validates
\* role against ^(system|user|assistant)$ and content against min_length=1
ChatMessage(role, content) ==
    IF role \in {"system", "user", "assistant"} /\ Len(content) >= 1
    THEN [role |-> role, content |-> content]
    ELSE Raised("ValidationError")

(* --------------------------- model_service.py ------------------------- *)

\* load_model raises ValueError for a backend that is neither TRANSFORMERS
\* nor JAX; the library calls of the other two may raise as well
UnsupportedBackend == "Unsupported backend"
RuntimeFailure == "runtime failure"

LoadErrors(backend) ==
    IF backend \in {TRANSFORMERS, JAX} THEN {RuntimeFailure}
    ELSE {UnsupportedBackend, RuntimeFailure}

CanLoad(backend) == backend \in {TRANSFORMERS, JAX}

\* ModelData when the loader hands out one shared object instead of building the
\* model, the tokenizer and the pipeline anew at every call
ModelData_shared(t) ==
    [model_name |-> t.model_name, backend |-> TRANSFORMERS, status |-> "ready", task |-> NoTime]

\* the dictionary _load_transformers_model returns (JAX falls back to it);
\* task is the identity of the load that produced it
ModelData(t) ==
    [model_name |-> t.model_name, backend |-> TRANSFORMERS, status |-> "ready", task |-> t.id]

\* ModelLoader.loaded_models, line 180: created empty, and no line of the
\* repository adds a key to it
loaded_models == <<>>

\* unload_model, lines 268-277: memory is released (del, gc.collect, empty_cache)
\* only for a key of loaded_models
unload_model_releases(model_key) == model_key \in DOMAIN loaded_models

(* --------------------------- user_service.py -------------------------- *)

Init ==
    /\ deployments = <<>>
    /\ active_models = <<>>
    /\ tasks = {}
    /\ clock = 0
    /\ keys_issued = 0
    /\ uuids_issued = 0
    /\ stop_seen = {}
    /\ chats = {}
    /\ request_count = 0
    /\ USER_DEPLOYMENTS = <<>>
    /\ ACTIVE_MODELS = <<>>
    /\ background_tasks = {}
    /\ deploy_calls = 0

\* dict helpers: d[k] = v and del d[k]
Put(d, k, v) == (k :> v) @@ d
Del(d, k) == [x \in (DOMAIN d) \ {k} |-> d[x]]

\* lines 44-46: a user id is generated when none is provided
ResolveUserId(user_id) ==
    IF user_id = NoUser THEN GeneratedIds[uuids_issued + 1] ELSE user_id

\* IsRepeat with `status == READY` in place of `status != ERROR`
IsRepeat_ready_only(user_id, model_name) ==
    /\ user_id \in DOMAIN deployments
    /\ deployments[user_id].model_name = model_name
    /\ deployments[user_id].status = READY

\* IsRepeat without the test of the status
IsRepeat_ignores_error(user_id, model_name) ==
    /\ user_id \in DOMAIN deployments
    /\ deployments[user_id].model_name = model_name

\* lines 48-52: the user already has this model deployed
IsRepeat(user_id, model_name) ==
    /\ user_id \in DOMAIN deployments
    /\ deployments[user_id].model_name = model_name
    /\ deployments[user_id].status # ERROR

\* `custom_config or {}`
StoredConfig(custom_config) == IF custom_config = "None" THEN "{}" ELSE custom_config

\* NewDeployment with a key generated whether or not api_key_enabled
NewDeployment_always_keyed(user_id, model_name, backend, api_key_enabled, custom_config) ==
    UserDeployment(user_id, model_name, backend, DEPLOYING, keys_issued + 1,
                   api_key_enabled, StoredConfig(custom_config), clock + 1)

\* lines 54-71: the record a create builds for a resolved user_id
NewDeployment(user_id, model_name, backend, api_key_enabled, custom_config) ==
    UserDeployment(user_id, model_name, backend, DEPLOYING,
                   IF api_key_enabled THEN keys_issued + 1 ELSE NoKey,
                   api_key_enabled, StoredConfig(custom_config), clock + 1)

\* the task object asyncio.create_task makes for _load_user_model(user_id, model_name, backend)
LoadTask(id, user_id, model_name, backend) ==
    [id |-> id, user_id |-> user_id, model_name |-> model_name, backend |-> backend,
     pc |-> "scheduled"]

\* line 77: the tasks after the load of a new record is scheduled
ScheduleLoad(user_id, model_name, backend) ==
    tasks \cup {LoadTask(clock + 1, user_id, model_name, backend)}

\* what create_deployment returns (lines 52 and 80)
create_deployment_result(model_name, backend, api_key_enabled, user_id, custom_config) ==
    LET uid == ResolveUserId(user_id)
    IN IF IsRepeat(uid, model_name)
       THEN deployments[uid]
       ELSE NewDeployment(uid, model_name, backend, api_key_enabled, custom_config)

\* create_deployment, lines 34-80
create_deployment(model_name, backend, api_key_enabled, user_id, custom_config) ==
    /\ user_id = NoUser => uuids_issued < Len(GeneratedIds)
    /\ uuids_issued' = IF user_id = NoUser THEN uuids_issued + 1 ELSE uuids_issued
    /\ LET uid == ResolveUserId(user_id)
       IN IF IsRepeat(uid, model_name)
          THEN UNCHANGED <<deployments, active_models, tasks, clock, keys_issued, stop_seen>>
          ELSE /\ clock < MaxCreates
               /\ clock' = clock + 1
               /\ keys_issued' = IF api_key_enabled THEN keys_issued + 1 ELSE keys_issued
               /\ deployments' = Put(deployments, uid,
                                     NewDeployment(uid, model_name, backend, api_key_enabled, custom_config))
               /\ tasks' = ScheduleLoad(uid, model_name, backend)
               /\ UNCHANGED <<active_models, stop_seen>>

\* _load_user_model, lines 84-92: up to the await of the Model Runtime
load_user_model_start(t) ==
    /\ t \in tasks
    /\ t.pc = "scheduled"
    /\ deployments' = IF t.user_id \in DOMAIN deployments
                      THEN [deployments EXCEPT ![t.user_id].status = DEPLOYING]
                      ELSE deployments
    /\ tasks' = (tasks \ {t}) \cup {[t EXCEPT !.pc = "loading"]}
    /\ UNCHANGED <<active_models, clock, keys_issued, uuids_issued, stop_seen>>

\* load_user_model_success without line 95: the status is updated, the model is not stored
load_user_model_success_unattached(t) ==
    /\ t \in tasks
    /\ t.pc = "loading"
    /\ CanLoad(t.backend)
    /\ deployments' = IF t.user_id \in DOMAIN deployments
                      THEN [deployments EXCEPT ![t.user_id].status = READY,
                                               ![t.user_id].loaded_at = clock]
                      ELSE deployments
    /\ tasks' = tasks \ {t}
    /\ stop_seen' = stop_seen \ {t.id}
    /\ UNCHANGED <<active_models, clock, keys_issued, uuids_issued>>

\* load_user_model_success without the test of line 97: a record is stored for
\* user_id when there is none
load_user_model_success_upserts(t) ==
    /\ t \in tasks
    /\ t.pc = "loading"
    /\ CanLoad(t.backend)
    /\ active_models' = Put(active_models, t.user_id, ModelData(t))
    /\ deployments' = IF t.user_id \in DOMAIN deployments
                      THEN [deployments EXCEPT ![t.user_id].status = READY,
                                               ![t.user_id].loaded_at = clock]
                      ELSE Put(deployments, t.user_id,
                               [UserDeployment(t.user_id, t.model_name, t.backend, READY,
                                               NoKey, FALSE, "{}", t.id)
                                EXCEPT !.loaded_at = clock])
    /\ tasks' = tasks \ {t}
    /\ stop_seen' = stop_seen \ {t.id}
    /\ UNCHANGED <<clock, keys_issued, uuids_issued>>

\* _load_user_model, lines 94-104: the Model Runtime returned a model
load_user_model_success(t) ==
    /\ t \in tasks
    /\ t.pc = "loading"
    /\ CanLoad(t.backend)
    /\ active_models' = Put(active_models, t.user_id, ModelData(t))
    /\ deployments' = IF t.user_id \in DOMAIN deployments
                      THEN [deployments EXCEPT ![t.user_id].status = READY,
                                               ![t.user_id].loaded_at = clock]
                      ELSE deployments
    /\ tasks' = tasks \ {t}
    /\ stop_seen' = stop_seen \ {t.id}
    /\ UNCHANGED <<clock, keys_issued, uuids_issued>>

\* load_user_model_failure without lines 110-114: the exception is swallowed
load_user_model_failure_unrecorded(t, e) ==
    /\ t \in tasks
    /\ t.pc = "loading"
    /\ e \in LoadErrors(t.backend)
    /\ tasks' = tasks \ {t}
    /\ stop_seen' = stop_seen \ {t.id}
    /\ UNCHANGED <<deployments, active_models, clock, keys_issued, uuids_issued>>

\* _load_user_model, lines 106-114: the Model Runtime raised e
load_user_model_failure(t, e) ==
    /\ t \in tasks
    /\ t.pc = "loading"
    /\ e \in LoadErrors(t.backend)
    /\ deployments' = IF t.user_id \in DOMAIN deployments
                      THEN [deployments EXCEPT ![t.user_id].status = ERROR,
                                               ![t.user_id].error_message = e]
                      ELSE deployments
    /\ tasks' = tasks \ {t}
    /\ stop_seen' = stop_seen \ {t.id}
    /\ UNCHANGED <<active_models, clock, keys_issued, uuids_issued>>

\* the loads of user_id that are in flight
InFlight(user_id) == {t \in tasks : t.user_id = user_id}

\* what stop_deployment returns (lines 130-131 and 144)
stop_deployment_result(user_id) == user_id \in DOMAIN deployments

\* stop_deployment with `self.active_models.clear()` in place of the del of line 140
stop_deployment_unloads_all(user_id) ==
    IF user_id \notin DOMAIN deployments
    THEN UNCHANGED vars
    ELSE /\ deployments' = [deployments EXCEPT ![user_id].status = STOPPED]
         /\ active_models' = <<>>
         /\ stop_seen' = stop_seen \cup {t.id : t \in InFlight(user_id)}
         /\ UNCHANGED <<tasks, clock, keys_issued, uuids_issued>>

\* stop_deployment without lines 138-141: the status is set, the model stays loaded
stop_deployment_status_only(user_id) ==
    IF user_id \notin DOMAIN deployments
    THEN UNCHANGED vars
    ELSE /\ deployments' = [deployments EXCEPT ![user_id].status = STOPPED]
         /\ stop_seen' = stop_seen \cup {t.id : t \in InFlight(user_id)}
         /\ UNCHANGED <<active_models, tasks, clock, keys_issued, uuids_issued>>

\* stop_deployment that also clears the api_key of the record
stop_deployment_revokes_key(user_id) ==
    IF user_id \notin DOMAIN deployments
    THEN UNCHANGED vars
    ELSE /\ deployments' = [deployments EXCEPT ![user_id].status = STOPPED,
                                               ![user_id].api_key = NoKey]
         /\ active_models' = Del(active_models, user_id)
         /\ stop_seen' = stop_seen \cup {t.id : t \in InFlight(user_id)}
         /\ UNCHANGED <<tasks, clock, keys_issued, uuids_issued>>

\* stop_deployment without the early return of lines 130-131 taking effect before
\* the model is dropped: a user_id with no record loses its model all the same
stop_deployment_drops_unknown(user_id) ==
    IF user_id \notin DOMAIN deployments
    THEN /\ active_models' = Del(active_models, user_id)
         /\ UNCHANGED <<deployments, tasks, clock, keys_issued, uuids_issued, stop_seen>>
    ELSE /\ deployments' = [deployments EXCEPT ![user_id].status = STOPPED]
         /\ active_models' = Del(active_models, user_id)
         /\ stop_seen' = stop_seen \cup {t.id : t \in InFlight(user_id)}
         /\ UNCHANGED <<tasks, clock, keys_issued, uuids_issued>>

\* stop_deployment, lines 128-144
stop_deployment(user_id) ==
    IF user_id \notin DOMAIN deployments
    THEN UNCHANGED vars
    ELSE /\ deployments' = [deployments EXCEPT ![user_id].status = STOPPED]
         /\ active_models' = Del(active_models, user_id)
         /\ stop_seen' = stop_seen \cup {t.id : t \in InFlight(user_id)}
         /\ UNCHANGED <<tasks, clock, keys_issued, uuids_issued>>

\* what delete_deployment returns (lines 148-149 and 158)
delete_deployment_result(user_id) == user_id \in DOMAIN deployments

\* delete_deployment without the call of stop_deployment (line 152)
delete_deployment_keeps_handle(user_id) ==
    IF user_id \notin DOMAIN deployments
    THEN UNCHANGED vars
    ELSE /\ deployments' = Del(deployments, user_id)
         /\ UNCHANGED <<active_models, tasks, clock, keys_issued, uuids_issued, stop_seen>>

\* delete_deployment, lines 146-158: stop_deployment, then the record is removed
delete_deployment(user_id) ==
    IF user_id \notin DOMAIN deployments
    THEN UNCHANGED vars
    ELSE /\ deployments' = Del([deployments EXCEPT ![user_id].status = STOPPED], user_id)
         /\ active_models' = Del(active_models, user_id)
         /\ stop_seen' = stop_seen \cup {t.id : t \in InFlight(user_id)}
         /\ UNCHANGED <<tasks, clock, keys_issued, uuids_issued>>

\* sum(1 for d in self.deployments.values() if d.status == status), the records
\* being those of user_ids
RECURSIVE CountStatus(_, _)
CountStatus(user_ids, status) ==
    IF user_ids = {} THEN 0
    ELSE LET u == CHOOSE x \in user_ids : TRUE
         IN (IF deployments[u].status = status THEN 1 ELSE 0)
            + CountStatus(user_ids \ {u}, status)

\* get_stats counting as active every record that is not in ERROR
get_stats_counts_not_error ==
    [total_deployments |-> Cardinality(DOMAIN deployments),
     active_deployments |-> Cardinality(DOMAIN deployments) - CountStatus(DOMAIN deployments, ERROR),
     error_deployments |-> CountStatus(DOMAIN deployments, ERROR),
     active_models |-> Cardinality(DOMAIN active_models),
     unique_users |-> Cardinality({deployments[u].user_id : u \in DOMAIN deployments})]

\* get_stats, lines 168-180: a function without an await, so all its reads are of
\* one state
get_stats ==
    [total_deployments |-> Cardinality(DOMAIN deployments),
     active_deployments |-> CountStatus(DOMAIN deployments, READY),
     error_deployments |-> CountStatus(DOMAIN deployments, ERROR),
     active_models |-> Cardinality(DOMAIN active_models),
     unique_users |-> Cardinality({deployments[u].user_id : u \in DOMAIN deployments})]

(* ------------------------- inference_service.py ----------------------- *)

\* chat_completion, lines 32-42: the checks made before any generation starts
chat_completion_check(user_id) ==
    IF user_id \notin DOMAIN deployments THEN "User deployment not found"
    ELSE IF deployments[user_id].status # READY THEN "Model not ready"
    ELSE IF user_id \notin DOMAIN active_models THEN "Model not loaded"
    ELSE "ok"

\* validate_api_key, user_service.py lines 160-166
validate_api_key(user_id, api_key) ==
    IF user_id \notin DOMAIN deployments \/ ~deployments[user_id].api_key_enabled
    THEN TRUE
    ELSE deployments[user_id].api_key = api_key

(* -------------------------------- app.py ------------------------------ *)

\* an HTTP outcome: the status code, the detail of the HTTPException (or what a
\* 200 carries) and the deployment status it reports ("None" when it reports none)
Response(status_code, detail, status) ==
    [status_code |-> status_code, detail |-> detail, status |-> status]

\* HTTPBearer(auto_error=False) yields None when no bearer token is presented
NoCredentials == -1

\* the bearer tokens tried: none, every key issued so far and one never issued
Credentials == {NoCredentials} \cup (1..(keys_issued + 1))

\* verify_api_key without the test of api_key_enabled: every deployment requires a key
verify_api_key_always_required(enable_auth, user_id, credentials) ==
    IF ~enable_auth THEN Response(200, "ok", "None")
    ELSE IF user_id \notin DOMAIN deployments THEN Response(200, "ok", "None")
    ELSE IF credentials = NoCredentials THEN Response(401, "API key required", "None")
    ELSE IF deployments[user_id].api_key # credentials THEN Response(401, "Invalid API key", "None")
    ELSE Response(200, "ok", "None")

\* verify_api_key taking every presented token for the stored key
verify_api_key_any_token(enable_auth, user_id, credentials) ==
    IF ~enable_auth THEN Response(200, "ok", "None")
    ELSE IF user_id \notin DOMAIN deployments \/ ~deployments[user_id].api_key_enabled
         THEN Response(200, "ok", "None")
    ELSE IF credentials = NoCredentials THEN Response(401, "API key required", "None")
    ELSE Response(200, "ok", "None")

\* verify_api_key, lines 54-73; enable_auth is settings.enable_auth as read at line 59
verify_api_key(enable_auth, user_id, credentials) ==
    IF ~enable_auth THEN Response(200, "ok", "None")
    ELSE IF user_id \notin DOMAIN deployments \/ ~deployments[user_id].api_key_enabled
         THEN Response(200, "ok", "None")
    ELSE IF credentials = NoCredentials THEN Response(401, "API key required", "None")
    ELSE IF ~validate_api_key(user_id, credentials) THEN Response(401, "Invalid API key", "None")
    ELSE Response(200, "ok", "None")

\* deploy_model, lines 111-134: the answer to POST deploy-model; create_deployment
\* raises nothing (_get_external_ip catches every exception), so line 134 is not reached
deploy_model_response(model_name, backend, api_key_enabled, user_id, custom_config) ==
    Response(200, "Deploying model",
             create_deployment_result(model_name, backend, api_key_enabled, user_id, custom_config).status)

\* get_deployment_status, lines 137-155: the status-polling interface
get_deployment_status_response(user_id) ==
    IF user_id \notin DOMAIN deployments THEN Response(404, "User deployment not found", "None")
    ELSE Response(200, deployments[user_id].error_message, deployments[user_id].status)

\* get_deployment_status, line 148: the api_key field of the DeploymentStatusResponse
get_deployment_status_api_key(user_id) ==
    IF deployments[user_id].api_key_enabled THEN deployments[user_id].api_key ELSE NoKey

\* get_user_models, lines 158-179: the dependency verify_api_key runs before the body
get_user_models_response(enable_auth, user_id, credentials) ==
    LET auth == verify_api_key(enable_auth, user_id, credentials)
    IN IF auth.status_code # 200 THEN auth
       ELSE IF user_id \notin DOMAIN deployments THEN Response(404, "User not found", "None")
       ELSE IF deployments[user_id].status # READY THEN Response(503, "Model not ready", "None")
       ELSE Response(200, deployments[user_id].model_name, "None")

\* user_chat_completions, lines 182-204, up to the start of the generation: the
\* dependency verify_api_key, then the checks of chat_completion, whose ValueError
\* becomes a 400 (lines 200-201); "generate" when the generation is started
user_chat_completions_response(enable_auth, user_id, credentials) ==
    LET auth == verify_api_key(enable_auth, user_id, credentials)
        check == chat_completion_check(user_id)
    IN IF auth.status_code # 200 THEN auth
       ELSE IF check = "Model not ready" THEN Response(400, check, deployments[user_id].status)
       ELSE IF check # "ok" THEN Response(400, check, "None")
       ELSE Response(200, "generate", "None")

\* get_status, app.py lines 278-309: the counts of the ServerStatus; get_stats is
\* called at line 281 and nothing suspends before the counts are copied
get_status_response ==
    [active_deployments |-> get_stats.active_deployments,
     active_models |-> get_stats.active_models,
     total_users |-> get_stats.unique_users]

\* stop_deployment, app.py lines 312-318
stop_deployment_response(user_id) ==
    IF stop_deployment_result(user_id) THEN Response(200, "stopped", "None")
    ELSE Response(404, "User deployment not found", "None")

\* delete_deployment, app.py lines 321-327
delete_deployment_response(user_id) ==
    IF delete_deployment_result(user_id) THEN Response(200, "deleted", "None")
    ELSE Response(404, "User deployment not found", "None")

\* what chat_completion holds of the record it read at line 33 while it generates
\* (the fields of the record that never change)
Captured(d) ==
    [created_at |-> d.created_at, model_name |-> d.model_name,
     api_key |-> d.api_key, api_key_enabled |-> d.api_key_enabled]

Generating == {c \in chats : c.phase = "generating"}

\* user_chat_completions, app.py lines 182-198, with chat_completion,
\* inference_service.py lines 32-49, up to the await of run_in_executor: the
\* dependency verify_api_key and the body of the endpoint run without a suspension
\* between them, and chat_completion has none before the generation; a request
\* that is refused changes nothing (its answer is user_chat_completions_response)
chat_completion_start(id, enable_auth, user_id, credentials) ==
    /\ id \notin {c.id : c \in chats}
    /\ user_chat_completions_response(enable_auth, user_id, credentials).detail = "generate"
    /\ chats' = chats \cup {[id |-> id, phase |-> "generating", user_id |-> user_id,
                              enable_auth |-> enable_auth, credentials |-> credentials,
                              deployment |-> Captured(deployments[user_id]),
                              model_data |-> active_models[user_id]]}
    /\ UNCHANGED <<registry, request_count, single_file>>

\* chat_completion_done with the increment of line 60 left out
chat_completion_done_uncounted(c) ==
    /\ c \in Generating
    /\ request_count' = request_count
    /\ chats' = (chats \ {c}) \cup {[id |-> c.id, phase |-> "done",
                                      request_count |-> request_count]}
    /\ UNCHANGED <<registry, single_file>>

\* chat_completion, inference_service.py lines 58-82: the generation has returned;
\* the response id is made of request_count at line 59 and request_count is
\* incremented at line 60, with no await between the two, before the response is
\* built; the done request keeps the value its response id was made of
chat_completion_done(c) ==
    /\ c \in Generating
    /\ request_count' = request_count + 1
    /\ chats' = (chats \ {c}) \cup {[id |-> c.id, phase |-> "done",
                                      request_count |-> request_count]}
    /\ UNCHANGED <<registry, single_file>>

\* the characters str.split() without argument splits at
Whitespace == {" ", "\n", "\t"}

\* SplitAcc that splits at the blank only, as str.split(" ") without its empty words
RECURSIVE SplitAcc_blank_only(_, _, _)
SplitAcc_blank_only(s, word, words) ==
    IF s = <<>> THEN (IF word = <<>> THEN words ELSE Append(words, word))
    ELSE IF Head(s) = " "
         THEN SplitAcc_blank_only(Tail(s), <<>>, IF word = <<>> THEN words ELSE Append(words, word))
    ELSE SplitAcc_blank_only(Tail(s), Append(word, Head(s)), words)

\* str.split() read from the left: word is the word being read, words those read
RECURSIVE SplitAcc(_, _, _)
SplitAcc(s, word, words) ==
    IF s = <<>> THEN (IF word = <<>> THEN words ELSE Append(words, word))
    ELSE IF Head(s) \in Whitespace
         THEN SplitAcc(Tail(s), <<>>, IF word = <<>> THEN words ELSE Append(words, word))
    ELSE SplitAcc(Tail(s), Append(word, Head(s)), words)

\* s.split()
Split(s) == SplitAcc(s, <<>>, <<>>)

\* "\n".join(parts), for at least one part
RECURSIVE Join(_)
Join(parts) ==
    IF Len(parts) = 1 THEN parts[1]
    ELSE parts[1] \o <<"\n">> \o Join(Tail(parts))

\* _format_messages_to_prompt, lines 96-101: the label put before the content
RoleLabel(role) ==
    CASE role = "system" -> <<"S", "y", "s", "t", "e", "m", ":", " ">>
      [] role = "user" -> <<"U", "s", "e", "r", ":", " ">>
      [] role = "assistant" -> <<"A", "s", "s", "i", "s", "t", "a", "n", "t", ":", " ">>

\* _format_messages_to_prompt, lines 88-106: a message of another role is skipped
format_messages_to_prompt(messages) ==
    LET known == SelectSeq(messages, LAMBDA m : m.role \in {"system", "user", "assistant"})
        parts == [i \in 1..Len(known) |-> RoleLabel(known[i].role) \o known[i].content]
    IN Join(Append(parts, <<"A", "s", "s", "i", "s", "t", "a", "n", "t", ":">>))

\* chat_completion, lines 58-86: what the call gives when the generation of c,
\* asked with messages, has returned response_text: the ChatCompletionResponse, or
\* the exception of the ChatMessage constructor of line 73, re-raised at line 86;
\* deployment is the record read at line 33
chat_completion_response(c, messages, response_text) ==
    LET prompt_tokens == Len(Split(format_messages_to_prompt(messages)))
        completion_tokens == Len(Split(response_text))
        message == ChatMessage("assistant", response_text)
    IN IF message = Raised("ValidationError") THEN message
       ELSE [id |-> <<"chatcmpl", request_count>>,
             model |-> c.deployment.model_name,
             choices |-> <<[index |-> 0,
                            message |-> message,
                            finish_reason |-> "stop"]>>,
             usage |-> [prompt_tokens |-> prompt_tokens,
                        completion_tokens |-> completion_tokens,
                        total_tokens |-> prompt_tokens + completion_tokens]]

\* the exceptions the generation may raise, by the class the handlers of
\* app.py lines 200-204 tell apart
GenerationErrors == {"ValueError", "Exception"}

\* user_chat_completions, app.py lines 200-204: the answer when chat_completion
\* re-raises (inference_service.py lines 84-86) the exception e of the generation
generation_failure_response(e) ==
    IF e = "ValueError" THEN Response(400, e, "None") ELSE Response(500, e, "None")

\* chat_completion, inference_service.py lines 84-86: the generation has raised e;
\* request_count is not incremented and the registry is not touched
chat_completion_failed(c, e) ==
    /\ c \in Generating
    /\ e \in GenerationErrors
    /\ chats' = (chats \ {c}) \cup {[id |-> c.id, phase |-> "failed"]}
    /\ UNCHANGED <<registry, request_count, single_file>>

(* ------------------------------ the system ---------------------------- *)

\* the generated ids a caller has been given
IssuedIds == {GeneratedIds[i] : i \in 1..uuids_issued}

AllUserIds == UserIds \cup {GeneratedIds[i] : i \in 1..Len(GeneratedIds)}

\* the deployment orchestrator alone: no chat completion is received
Next ==
    \/ \E r \in DeployRequests, u \in UserIds \cup IssuedIds \cup {NoUser} :
          create_deployment(r[1], r[2], r[3], u, r[4]) /\ UNCHANGED <<inference, single_file>>
    \/ \E t \in tasks : load_user_model_start(t) /\ UNCHANGED <<inference, single_file>>
    \/ \E t \in tasks : load_user_model_success(t) /\ UNCHANGED <<inference, single_file>>
    \/ \E t \in tasks, e \in {UnsupportedBackend, RuntimeFailure} :
          load_user_model_failure(t, e) /\ UNCHANGED <<inference, single_file>>
    \/ \E u \in AllUserIds : stop_deployment(u) /\ UNCHANGED <<inference, single_file>>
    \/ \E u \in AllUserIds : delete_deployment(u) /\ UNCHANGED <<inference, single_file>>

Spec == Init /\ [][Next]_vars

\* a step of a load task: the event loop runs a task that is ready to run, or the
\* Model Runtime returns
LoadStep ==
    \E t \in tasks :
        /\ \/ load_user_model_start(t)
           \/ load_user_model_success(t)
           \/ \E e \in LoadErrors(t.backend) : load_user_model_failure(t, e)
        /\ UNCHANGED <<inference, single_file>>

\* the orchestrator when every task created is run by the event loop and every
\* call of the Model Runtime returns
FairSpec == Spec /\ WF_vars(LoadStep)

\* the event loop runs a task that is ready to run
StartStep == \E t \in tasks : load_user_model_start(t) /\ UNCHANGED <<inference, single_file>>

\* the orchestrator when every task created is run by the event loop, while a call
\* of the Model Runtime may never return: line 92 awaits it with no timeout
HangSpec == Spec /\ WF_vars(StartStep)

\* the orchestrator with the chat completions of ChatIds
ChatNext ==
    \/ Next
    \/ \E id \in ChatIds, enable_auth \in BOOLEAN, u \in AllUserIds, c \in Credentials :
          chat_completion_start(id, enable_auth, u, c)
    \/ \E c \in chats : chat_completion_done(c)
    \/ \E c \in chats, e \in GenerationErrors : chat_completion_failed(c, e)

ChatSpec == Init /\ [][ChatNext]_vars

\* the chat completion requests of ConcurrentChatSpec, each received once
ConcurrentChatIds == {"c1", "c2", "c3"}

\* the orchestrator with several chat completions generating at the same time,
\* received while settings.enable_auth is off
ConcurrentChatNext ==
    \/ Next
    \/ \E id \in ConcurrentChatIds, u \in AllUserIds :
          chat_completion_start(id, FALSE, u, NoCredentials)
    \/ \E c \in chats : chat_completion_done(c)
    \/ \E c \in chats, e \in GenerationErrors : chat_completion_failed(c, e)

ConcurrentChatSpec == Init /\ [][ConcurrentChatNext]_vars

(* ------------------------ model_proxy_server.py ----------------------- *)

\* deploy_model, lines 795-803: the entry stored for user_id; the token of
\* generate_api_key and datetime.now() are told apart by the number of the call
mps_deployment(user_id, model_name, backend, api_key_enabled) ==
    [model_name |-> model_name,
     backend |-> backend,
     api_key |-> IF api_key_enabled THEN deploy_calls + 1 ELSE NoKey,
     api_key_enabled |-> api_key_enabled,
     status |-> "deploying",
     created_at |-> deploy_calls + 1,
     base_url |-> BaseUrl(user_id)]

\* line 789, `request.user_id or generate_user_id()`: a generated id is one that no
\* entry has yet
mps_ResolveUserId(user_id) == IF user_id = NoUser THEN GeneratedIds[1] ELSE user_id

\* deploy_model, lines 784-814: the entry of user_id is stored, over the one it may
\* have, and load_user_model is added to the background tasks of the request
mps_deploy_model(model_name, backend, api_key_enabled, user_id) ==
    /\ deploy_calls < MaxCreates
    /\ user_id = NoUser => GeneratedIds[1] \notin DOMAIN USER_DEPLOYMENTS
    /\ LET uid == mps_ResolveUserId(user_id)
       IN /\ USER_DEPLOYMENTS' = Put(USER_DEPLOYMENTS, uid,
                                     mps_deployment(uid, model_name, backend, api_key_enabled))
          /\ background_tasks' = background_tasks \cup
                 {[id |-> deploy_calls + 1, user_id |-> uid, model_name |-> model_name,
                   backend |-> backend]}
    /\ deploy_calls' = deploy_calls + 1
    /\ UNCHANGED ACTIVE_MODELS

\* load_model_async, lines 151-230: a model is built for "transformers" and for
\* "jax", which falls back to it; every other backend raises
mps_load_model_async_loads(backend) == backend \in {"transformers", "jax"}

\* load_user_model, lines 820-835: load_model_async returned model_data
mps_load_user_model_success(t) ==
    /\ t \in background_tasks
    /\ mps_load_model_async_loads(t.backend)
    /\ ACTIVE_MODELS' = Put(ACTIVE_MODELS, t.user_id,
                            [backend |-> "transformers", status |-> "ready", task |-> t.id])
    /\ USER_DEPLOYMENTS' =
          Put(USER_DEPLOYMENTS, t.user_id,
              Put(Put(USER_DEPLOYMENTS[t.user_id], "status", "ready"), "loaded_at", deploy_calls))
    /\ background_tasks' = background_tasks \ {t}
    /\ UNCHANGED deploy_calls

\* load_user_model, lines 837-840: load_model_async raised (every exception of the
\* loader is turned into an HTTPException at lines 228-230)
mps_load_user_model_failure(t) ==
    /\ t \in background_tasks
    /\ USER_DEPLOYMENTS' =
          Put(USER_DEPLOYMENTS, t.user_id,
              Put(Put(USER_DEPLOYMENTS[t.user_id], "status", "error"),
                  "error", "Failed to load model"))
    /\ background_tasks' = background_tasks \ {t}
    /\ UNCHANGED <<ACTIVE_MODELS, deploy_calls>>

\* the bearer tokens tried on the single-file server: none, every token drawn so
\* far and one never drawn
mps_Credentials == {NoCredentials} \cup (1..(deploy_calls + 1))

\* user_chat_completions, lines 882-899, up to the start of the generation:
\* authorization is the Authorization header of the request, which is not among
\* the parameters of the handler; the branch of lines 891-893 is `pass`
mps_user_chat_completions_response(user_id, authorization) ==
    IF user_id \notin DOMAIN USER_DEPLOYMENTS THEN Response(404, "User not found", "None")
    ELSE IF USER_DEPLOYMENTS[user_id].status # "ready"
         THEN Response(503, "Model not ready", "None")
    ELSE IF user_id \notin DOMAIN ACTIVE_MODELS THEN Response(503, "Model not loaded", "None")
    ELSE Response(200, "generate", "None")

\* the single-file server
SingleFileNext ==
    \/ \E r \in DeployRequests, u \in AllUserIds \cup {NoUser} :
          mps_deploy_model(r[1], r[2], r[3], u) /\ UNCHANGED <<registry, inference>>
    \/ \E t \in background_tasks :
          mps_load_user_model_success(t) /\ UNCHANGED <<registry, inference>>
    \/ \E t \in background_tasks :
          mps_load_user_model_failure(t) /\ UNCHANGED <<registry, inference>>

SingleFileSpec == Init /\ [][SingleFileNext]_vars

(* ------------------------------ the claims ---------------------------- *)

Status(u) == deployments[u].status
HasHandle(u) == u \in DOMAIN active_models

\* the record of t.user_id is still the one t was scheduled for
OwnRecord(t) ==
    /\ t.user_id \in DOMAIN deployments
    /\ deployments[t.user_id].created_at = t.id

\* C1: a deployment whose status is not READY has no handle attached
C1_NoHandleUnlessReady ==
    \A u \in DOMAIN deployments : Status(u) # READY => ~HasHandle(u)

\* C2: a READY deployment has a handle attached, so the handle lookup that
\* follows the readiness check of chat_completion never fails
C2_ReadyHasHandle ==
    \A u \in AllUserIds :
        /\ (u \in DOMAIN deployments /\ Status(u) = READY) => HasHandle(u)
        /\ chat_completion_check(u) # "Model not loaded"

C2_Witness ==
    \E u \in DOMAIN deployments :
        Status(u) = READY /\ HasHandle(u) /\ chat_completion_check(u) = "ok"

\* C3: a load that saw a stop of its deployment and then succeeds leaves the
\* deployment STOPPED and attaches no handle
C3_StopDuringLoadSuccess ==
    [][\A t \in tasks :
          (load_user_model_success(t) /\ t.id \in stop_seen /\ OwnRecord(t))
          => /\ t.user_id \in DOMAIN deployments'
             /\ deployments'[t.user_id].status = STOPPED
             /\ t.user_id \notin DOMAIN active_models']_vars

\* C4: a load that saw a stop of its deployment and then fails leaves the
\* deployment STOPPED, with no error_message recorded
C4_StopDuringLoadFailure ==
    [][\A t \in tasks, e \in {UnsupportedBackend, RuntimeFailure} :
          (load_user_model_failure(t, e) /\ t.id \in stop_seen /\ OwnRecord(t))
          => /\ t.user_id \in DOMAIN deployments'
             /\ deployments'[t.user_id].status = STOPPED
             /\ deployments'[t.user_id].error_message = NoError]_vars

\* C5: at most one load is in flight per user_id
C5_SingleFlight ==
    \A u \in AllUserIds : Cardinality(InFlight(u)) <= 1

\* C6: the completion of a load scheduled for a record that has been replaced
\* changes neither the newer record nor the attached handle, and the handle of
\* a READY deployment was produced by the load scheduled for that record
C6_HandleOfOwnLoad ==
    \A u \in DOMAIN deployments :
        (Status(u) = READY /\ HasHandle(u))
        => /\ active_models[u].task = deployments[u].created_at
           /\ active_models[u].model_name = deployments[u].model_name

C6_StaleLoadIgnored ==
    \A t \in tasks :
        ((load_user_model_success(t) \/ \E e \in LoadErrors(t.backend) : load_user_model_failure(t, e))
         /\ t.user_id \in DOMAIN deployments /\ ~OwnRecord(t))
        => UNCHANGED <<deployments, active_models>>

C6_MostRecentCreateWins == []C6_HandleOfOwnLoad /\ [][C6_StaleLoadIgnored]_vars

\* C7: no handle is attached for a user_id that has no deployment record
C7_NoHandleWithoutRecord ==
    \A u \in DOMAIN active_models : u \in DOMAIN deployments

\* C8: a create for a user whose deployment has the same model_name and is not
\* in ERROR returns the existing record, changes nothing and schedules no load
C8_RepeatCase(r, u) ==
    /\ u \in DOMAIN deployments
    /\ deployments[u].model_name = r[1]
    /\ deployments[u].status # ERROR

C8_ReturnsExisting ==
    \A r \in DeployRequests, u \in AllUserIds :
        C8_RepeatCase(r, u) => create_deployment_result(r[1], r[2], r[3], u, r[4]) = deployments[u]

C8_NoEffect ==
    \A r \in DeployRequests, u \in AllUserIds :
        (C8_RepeatCase(r, u) /\ create_deployment(r[1], r[2], r[3], u, r[4]))
        => UNCHANGED <<deployments, active_models, tasks, clock, keys_issued>>

C8_CreateIdempotent == []C8_ReturnsExisting /\ [][C8_NoEffect]_vars

\* a repeat request that differs from the stored record in everything but the model
C8_Witness ==
    \E r \in DeployRequests, u \in AllUserIds :
        /\ C8_RepeatCase(r, u)
        /\ Status(u) \in {READY, STOPPED}
        /\ deployments[u].backend # r[2]
        /\ deployments[u].api_key_enabled # r[3]
        /\ deployments[u].custom_config # StoredConfig(r[4])

\* C9: a create for a user whose deployment has another model_name or is in
\* ERROR replaces it by one fresh record and schedules exactly one load
C9_ReplaceCase(r, u) ==
    /\ u \in DOMAIN deployments
    /\ (deployments[u].model_name # r[1] \/ deployments[u].status = ERROR)

C9_ReturnsFresh ==
    \A r \in DeployRequests, u \in AllUserIds :
        C9_ReplaceCase(r, u)
        => LET d == create_deployment_result(r[1], r[2], r[3], u, r[4])
           IN /\ d.created_at > deployments[u].created_at
              /\ d.user_id = u /\ d.model_name = r[1]
              /\ d.status \in {PENDING, DEPLOYING}

C9_Replaces ==
    \A r \in DeployRequests, u \in AllUserIds :
        (C9_ReplaceCase(r, u) /\ create_deployment(r[1], r[2], r[3], u, r[4]))
        => /\ DOMAIN deployments' = DOMAIN deployments
           /\ \A x \in DOMAIN deployments' :
                 /\ deployments'[x].user_id = x
                 /\ x # u => deployments'[x] = deployments[x]
           /\ deployments'[u] = create_deployment_result(r[1], r[2], r[3], u, r[4])
           /\ deployments'[u].created_at > deployments[u].created_at
           /\ deployments'[u].status \in {PENDING, DEPLOYING}
           /\ deployments'[u].error_message = NoError
           /\ deployments'[u].loaded_at = NoTime
           /\ deployments'[u].model_name = r[1]
           /\ deployments'[u].backend = r[2]
           /\ deployments'[u].api_key_enabled = r[3]
           /\ (deployments'[u].api_key # NoKey) <=> r[3]
           /\ r[3] => deployments'[u].api_key > keys_issued
           /\ tasks \subseteq tasks'
           /\ Cardinality(tasks' \ tasks) = 1
           /\ \A t \in tasks' \ tasks :
                 /\ t.user_id = u /\ t.model_name = r[1] /\ t.backend = r[2]
                 /\ t.pc = "scheduled" /\ t.id = deployments'[u].created_at

C9_CreateReplaces == []C9_ReturnsFresh /\ [][C9_Replaces]_vars

\* a record that replaced an earlier one of the same user, whose load is still in flight
C9_Witness ==
    \E u \in DOMAIN deployments :
        /\ deployments[u].created_at > 1
        /\ Status(u) = DEPLOYING
        /\ deployments[u].error_message = NoError
        /\ \E t \in InFlight(u) : t.id = deployments[u].created_at /\ t.pc = "scheduled"
        /\ \E t \in InFlight(u) : t.id < deployments[u].created_at /\ t.model_name # deployments[u].model_name

\* C10: every status change of a record follows the state machine
StateMachine ==
    {<<PENDING, DEPLOYING>>, <<DEPLOYING, READY>>, <<DEPLOYING, ERROR>>, <<READY, STOPPED>>,
     <<PENDING, STOPPED>>, <<DEPLOYING, STOPPED>>}

C10_StatusFollowsStateMachine ==
    [][\A u \in DOMAIN deployments :
          (u \in DOMAIN deployments' /\ deployments'[u].created_at = deployments[u].created_at)
          => \/ deployments'[u].status = deployments[u].status
             \/ <<deployments[u].status, deployments'[u].status>> \in StateMachine]_vars

\* the user ids a caller can pass to create_deployment: a known id, or none while
\* generate_user_id has an id left to return
CallerIds ==
    UserIds \cup IssuedIds \cup (IF uuids_issued < Len(GeneratedIds) THEN {NoUser} ELSE {})

\* C11: when a load fails while the deployment is still the one being loaded,
\* the deployment becomes ERROR with the cause as error_message and no handle is attached
C11_LoadFailureGivesError ==
    [][\A t \in tasks, e \in {UnsupportedBackend, RuntimeFailure} :
          (load_user_model_failure(t, e) /\ OwnRecord(t) /\ Status(t.user_id) = DEPLOYING)
          => /\ t.user_id \in DOMAIN deployments'
             /\ deployments'[t.user_id].status = ERROR
             /\ deployments'[t.user_id].error_message = e
             /\ t.user_id \notin DOMAIN active_models']_vars

\* C12 as stated: every deploy call returns a deployment that is PENDING or DEPLOYING
C12_DeployReturnsDeploying ==
    \A r \in DeployRequests, u \in CallerIds :
        LET resp == deploy_model_response(r[1], r[2], r[3], u, r[4])
        IN resp.status_code = 200 /\ resp.status \in {PENDING, DEPLOYING}

\* C12 amended: a deploy call never fails; one that creates a record returns it
\* PENDING or DEPLOYING, a repeat returns the existing record with its current
\* status, which is never ERROR; a load failure shows only in the status poll
C12_DeployNeverReportsFailure ==
    \A r \in DeployRequests, u \in CallerIds :
        LET resp == deploy_model_response(r[1], r[2], r[3], u, r[4])
            d == create_deployment_result(r[1], r[2], r[3], u, r[4])
        IN /\ resp.status_code = 200
           /\ resp.status = d.status
           /\ resp.status # ERROR
           /\ IF u # NoUser /\ C8_RepeatCase(r, u)
              THEN resp.status = get_deployment_status_response(u).status
              ELSE resp.status \in {PENDING, DEPLOYING}

\* a failed load, visible in the status poll, and a repeat that returns a READY record
C12_Witness ==
    /\ \E u \in DOMAIN deployments :
          /\ get_deployment_status_response(u).status = ERROR
          /\ get_deployment_status_response(u).detail # NoError
          /\ \E r \in DeployRequests :
                r[1] = deployments[u].model_name
                /\ deploy_model_response(r[1], r[2], r[3], u, r[4]).status = DEPLOYING
    /\ \E u \in DOMAIN deployments, r \in DeployRequests :
          deploy_model_response(r[1], r[2], r[3], u, r[4]).status = READY

\* the record, the handle and the loads in flight of user b are the same after the step
Untouched(b) ==
    /\ (b \in DOMAIN deployments') <=> (b \in DOMAIN deployments)
    /\ b \in DOMAIN deployments => deployments'[b] = deployments[b]
    /\ (b \in DOMAIN active_models') <=> (b \in DOMAIN active_models)
    /\ b \in DOMAIN active_models => active_models'[b] = active_models[b]
    /\ {t \in tasks' : t.user_id = b} = InFlight(b)

OthersUntouched(a) == \A b \in AllUserIds \ {a} : Untouched(b)

\* C13: an operation scoped to user A leaves the record, the handle and the
\* loads in flight of every other user unchanged
C13_FaultIsolation ==
    [][/\ \A r \in DeployRequests, u \in CallerIds :
             create_deployment(r[1], r[2], r[3], u, r[4]) => OthersUntouched(ResolveUserId(u))
       /\ \A t \in tasks :
             (\/ load_user_model_start(t)
              \/ load_user_model_success(t)
              \/ \E e \in LoadErrors(t.backend) : load_user_model_failure(t, e))
             => OthersUntouched(t.user_id)
       /\ \A a \in AllUserIds :
             (stop_deployment(a) \/ delete_deployment(a)) => OthersUntouched(a)]_vars

\* one user's load has failed while the other user is READY with its own handle
C13_Witness ==
    \E a \in DOMAIN deployments, b \in DOMAIN deployments :
        /\ a # b
        /\ Status(a) = ERROR
        /\ Status(b) = READY /\ HasHandle(b)
        /\ active_models[b].task = deployments[b].created_at

\* C14: delete_deployment of an existing deployment succeeds, whatever the
\* status, and leaves neither a record nor a handle for the user
C14_DeleteSucceeds ==
    \A u \in DOMAIN deployments :
        delete_deployment_result(u) /\ delete_deployment_response(u).status_code = 200

C14_DeleteRemoves ==
    \A u \in AllUserIds :
        (u \in DOMAIN deployments /\ delete_deployment(u))
        => /\ u \notin DOMAIN deployments'
           /\ u \notin DOMAIN active_models'

C14_DeleteRemovesRecordAndHandle == []C14_DeleteSucceeds /\ [][C14_DeleteRemoves]_vars

\* the only user ever deployed has been deleted after its load had finished
C14_Witness ==
    /\ clock >= 1 /\ uuids_issued = 0
    /\ UserIds \cap DOMAIN deployments = {}
    /\ UserIds \cap DOMAIN active_models = {}
    /\ tasks = {}

\* C15: stop_deployment of an existing deployment is one step that waits for no
\* load: the record is retained with status STOPPED and no handle is attached
C15_StopSucceeds ==
    \A u \in DOMAIN deployments :
        stop_deployment_result(u) /\ stop_deployment_response(u).status_code = 200

C15_StopStops ==
    \A u \in AllUserIds :
        (u \in DOMAIN deployments /\ stop_deployment(u))
        => /\ DOMAIN deployments' = DOMAIN deployments
           /\ deployments'[u] = [deployments[u] EXCEPT !.status = STOPPED]
           /\ u \notin DOMAIN active_models'
           /\ tasks' = tasks

C15_StopIsImmediate == []C15_StopSucceeds /\ [][C15_StopStops]_vars

\* a deployment stopped while its load is still in flight
C15_Witness ==
    \E u \in DOMAIN deployments :
        /\ Status(u) = STOPPED /\ ~HasHandle(u)
        /\ \E t \in InFlight(u) : t.id = deployments[u].created_at /\ t.id \in stop_seen

\* C16: the Auth Gate accepts whatever is presented when authentication is disabled
\* system-wide or the deployment has api_key_enabled false; otherwise it accepts
\* exactly the stored api_key, and rejects an absent key ("API key required")
\* differently from a wrong one ("Invalid API key")
C16_AuthGateDecision ==
    \A enable_auth \in BOOLEAN, u \in DOMAIN deployments, c \in Credentials :
        LET resp == verify_api_key(enable_auth, u, c)
            d == deployments[u]
        IN /\ ~d.api_key_enabled => validate_api_key(u, c)
           /\ d.api_key_enabled => (validate_api_key(u, c) <=> c = d.api_key)
           /\ IF ~enable_auth \/ ~d.api_key_enabled
              THEN resp.status_code = 200
              ELSE IF c = NoCredentials
              THEN resp = Response(401, "API key required", "None")
              ELSE IF c = d.api_key
              THEN resp.status_code = 200
              ELSE resp = Response(401, "Invalid API key", "None")

\* a deployment that requires a key, tried with its key, a key that is not its own,
\* no key and with authentication off, next to a deployment that requires none
C16_Witness ==
    \E u \in DOMAIN deployments, v \in DOMAIN deployments :
        /\ deployments[u].api_key_enabled
        /\ verify_api_key(TRUE, u, deployments[u].api_key).status_code = 200
        /\ \E c \in Credentials : verify_api_key(TRUE, u, c).detail = "Invalid API key"
        /\ verify_api_key(TRUE, u, NoCredentials).detail = "API key required"
        /\ verify_api_key(FALSE, u, NoCredentials).status_code = 200
        /\ ~deployments[v].api_key_enabled
        /\ verify_api_key(TRUE, v, NoCredentials).status_code = 200

\* C18 as stated: a model listing for a deployment that is not READY answers 503
\* whatever credential is presented
C18_ListingNotReadyBeforeAuth ==
    \A enable_auth \in BOOLEAN, u \in DOMAIN deployments, c \in Credentials :
        Status(u) # READY => get_user_models_response(enable_auth, u, c).status_code = 503

\* C19 as stated: a chat completion for a user without a deployment record answers 404
C19_ChatUnknownUserNotFound ==
    \A enable_auth \in BOOLEAN, u \in AllUserIds \ DOMAIN deployments, c \in Credentials :
        user_chat_completions_response(enable_auth, u, c).status_code = 404

\* C20 as stated: a chat completion that passes the Auth Gate for a deployment that
\* is not READY answers 503 with the current status and starts no generation
C20_ChatNotReadyUnavailable ==
    \A enable_auth \in BOOLEAN, u \in DOMAIN deployments, c \in Credentials :
        (Status(u) # READY /\ verify_api_key(enable_auth, u, c).status_code = 200)
        => LET resp == user_chat_completions_response(enable_auth, u, c)
           IN resp.status_code = 503 /\ resp.status = Status(u) /\ resp.detail # "generate"

\* C17: a chat completion checked with authentication enabled against a deployment
\* with api_key_enabled generates only if its bearer token is the api_key of the
\* record it read, also after that record has been replaced; a wrong or missing
\* token is answered 401 and starts no generation
C17_GenerationOnlyWithKey ==
    /\ \A c \in Generating :
          (c.enable_auth /\ c.deployment.api_key_enabled) => c.credentials = c.deployment.api_key
    /\ \A u \in DOMAIN deployments, cr \in Credentials :
          (deployments[u].api_key_enabled /\ cr # deployments[u].api_key)
          => user_chat_completions_response(TRUE, u, cr).status_code = 401

\* a generation that was let in with the key of its record, which has since been
\* replaced by a record with another key
C17_Witness ==
    \E c \in Generating :
        /\ c.enable_auth /\ c.deployment.api_key_enabled
        /\ c.credentials = c.deployment.api_key
        /\ c.user_id \in DOMAIN deployments
        /\ deployments[c.user_id].created_at # c.deployment.created_at
        /\ deployments[c.user_id].api_key_enabled
        /\ deployments[c.user_id].api_key # c.credentials

\* C21: when tasks are run and loads return, a deployment in DEPLOYING leaves it
C21_DeployingLeaves ==
    \A u \in AllUserIds :
        (u \in DOMAIN deployments /\ Status(u) = DEPLOYING)
        ~> (u \notin DOMAIN deployments \/ Status(u) # DEPLOYING)

\* C21: a record whose backend the Model Runtime rejects, while its load is in flight,
\* leads to ERROR with a message unless it is stopped, deleted or replaced by a
\* record of a backend that loads
C21_RejectedEndsInError ==
    \A u \in AllUserIds :
        (/\ u \in DOMAIN deployments /\ ~CanLoad(deployments[u].backend)
         /\ \E t \in InFlight(u) : t.id = deployments[u].created_at)
        ~> \/ u \notin DOMAIN deployments
           \/ CanLoad(deployments[u].backend)
           \/ deployments[u].created_at \in stop_seen
           \/ Status(u) = ERROR /\ deployments[u].error_message # NoError

C21_Liveness == C21_DeployingLeaves /\ C21_RejectedEndsInError

\* a rejected deployment that ended in ERROR with the cause recorded
C21_Witness ==
    \E u \in DOMAIN deployments :
        /\ ~CanLoad(deployments[u].backend)
        /\ Status(u) = ERROR /\ deployments[u].error_message = UnsupportedBackend
        /\ InFlight(u) = {}

\* C22 as stated: a deployment whose load has been started does not stay in
\* DEPLOYING forever, also when the Model Runtime never returns
C22_LoadTimesOut ==
    \A u \in AllUserIds :
        (/\ u \in DOMAIN deployments /\ Status(u) = DEPLOYING
         /\ \E t \in InFlight(u) : t.pc = "loading")
        ~> (u \notin DOMAIN deployments \/ Status(u) # DEPLOYING)

\* C23 as stated: whatever the generation of a chat completion raises is answered
\* with a 500
C23_GenerationFailureIs500 ==
    \A c \in Generating, e \in GenerationErrors :
        generation_failure_response(e).status_code = 500

\* C24: a record has an api_key iff api_key_enabled, and the status poll shows the
\* api_key only of a record with api_key_enabled
C24_KeyIffEnabled ==
    \A u \in DOMAIN deployments :
        /\ deployments[u].api_key # NoKey <=> deployments[u].api_key_enabled
        /\ get_deployment_status_api_key(u) # NoKey => deployments[u].api_key_enabled
        /\ deployments[u].api_key_enabled
           => get_deployment_status_api_key(u) = deployments[u].api_key

\* one deployment whose key the status poll shows next to one without a key
C24_Witness ==
    \E u \in DOMAIN deployments, v \in DOMAIN deployments :
        /\ deployments[u].api_key_enabled /\ get_deployment_status_api_key(u) \in 1..keys_issued
        /\ ~deployments[v].api_key_enabled /\ get_deployment_status_api_key(v) = NoKey

\* the fields of a record that are fixed when it is created
Identity(d) ==
    <<d.user_id, d.model_name, d.backend, d.api_key, d.api_key_enabled, d.base_url,
      d.created_at, d.custom_config>>

\* every record is kept by the step, with the fields fixed at creation unchanged
RecordsKeepIdentity ==
    \A u \in DOMAIN deployments :
        u \in DOMAIN deployments' /\ Identity(deployments'[u]) = Identity(deployments[u])

\* C25: a step of a load task and stop_deployment change, of any record, only the
\* status, loaded_at and error_message
C25_LoadAndStopKeepIdentity ==
    [][/\ \A t \in tasks :
             (\/ load_user_model_start(t)
              \/ load_user_model_success(t)
              \/ \E e \in LoadErrors(t.backend) : load_user_model_failure(t, e))
             => RecordsKeepIdentity
       /\ \A a \in AllUserIds : stop_deployment(a) => RecordsKeepIdentity]_vars

\* a record that was loaded and then stopped, or failed and then stopped: its
\* status, loaded_at or error_message have been written after its creation
C25_Witness ==
    \E u \in DOMAIN deployments :
        /\ Status(u) = STOPPED
        /\ deployments[u].loaded_at # NoTime \/ deployments[u].error_message # NoError
        /\ deployments[u].api_key_enabled /\ deployments[u].api_key # NoKey

\* the records with a status
WithStatus(status) == {u \in DOMAIN deployments : Status(u) = status}

\* C26: the counts of get_stats are those of the state it is called in: the records,
\* the READY records, the ERROR records and the handles attached, no record being
\* counted under two statuses
C26_StatsAreSnapshot ==
    /\ get_stats.total_deployments = Cardinality(DOMAIN deployments)
    /\ get_stats.unique_users = Cardinality(DOMAIN deployments)
    /\ get_stats.active_deployments = Cardinality(WithStatus(READY))
    /\ get_stats.error_deployments = Cardinality(WithStatus(ERROR))
    /\ get_stats.active_models = Cardinality(DOMAIN active_models)
    /\ get_stats.active_deployments + get_stats.error_deployments
          <= get_stats.total_deployments
    /\ get_status_response.active_deployments = Cardinality(WithStatus(READY))
    /\ get_status_response.active_models = Cardinality(DOMAIN active_models)
    /\ get_status_response.total_users = Cardinality(DOMAIN deployments)

\* two records, one READY with its handle and one in ERROR
C26_Witness ==
    /\ get_stats.total_deployments = 2
    /\ get_stats.active_deployments = 1
    /\ get_stats.error_deployments = 1
    /\ get_stats.active_models = 1
    /\ get_status_response.total_users = 2

\* C27 as stated: create_deployment for a STOPPED deployment, with the same
\* model_name, returns a fresh record that is PENDING or DEPLOYING
C27_StoppedCreateIsFresh ==
    \A u \in DOMAIN deployments, r \in DeployRequests :
        (Status(u) = STOPPED /\ r[1] = deployments[u].model_name)
        => LET d == create_deployment_result(r[1], r[2], r[3], u, r[4])
           IN /\ d.created_at = clock + 1
              /\ d.status \in {PENDING, DEPLOYING}
              /\ ~IsRepeat(u, r[1])

\* the handle attached to u is detached or replaced by the step
HandleLeaves(u) ==
    /\ u \in DOMAIN active_models
    /\ u \notin DOMAIN active_models' \/ active_models'[u] # active_models[u]

\* C28 as stated: a handle leaves the registry only in a step that calls
\* unload_model for it (lines 138-141, reached from stop and delete), and the call
\* releases it
C28_LeavingHandleIsReleased ==
    [][\A u \in AllUserIds :
          HandleLeaves(u)
          => /\ stop_deployment(u) \/ delete_deployment(u)
             /\ unload_model_releases(u)]_vars

\* no handle is attached to two users
HandlesDistinct ==
    \A a \in DOMAIN active_models, b \in DOMAIN active_models :
        a # b => active_models[a].task # active_models[b].task

\* a handle that the step attaches to u is the result of a load created for u
AttachedByOwnLoad ==
    \A u \in AllUserIds :
        (/\ u \in DOMAIN active_models'
         /\ u \notin DOMAIN active_models \/ active_models'[u] # active_models[u])
        => \E t \in InFlight(u) :
              load_user_model_success(t) /\ active_models'[u] = ModelData(t)

\* C29: no two users have the same handle attached, and a handle is attached to a
\* user only by a load that was created for that user
C29_NoSharedHandle == []HandlesDistinct /\ [][AttachedByOwnLoad]_vars

\* two users, each with the handle of its own load attached
C29_Witness ==
    \E a \in DOMAIN active_models, b \in DOMAIN active_models :
        /\ a # b
        /\ a \in DOMAIN deployments /\ active_models[a].task = deployments[a].created_at
        /\ b \in DOMAIN deployments /\ active_models[b].task = deployments[b].created_at

\* the number of words of s: the places where a character that is no whitespace
\* starts s or follows a whitespace
WordCount(s) ==
    Cardinality({i \in 1..Len(s) :
                    s[i] \notin Whitespace /\ (i = 1 \/ s[i - 1] \in Whitespace)})

\* C30: the response of a successful chat completion has one choice, with index 0
\* and role "assistant", the model_name of the record the request read, and a usage
\* whose total is the sum of the word counts of the formatted prompt and of the
\* completion
C30_ResponseEnvelope ==
    \A c \in Generating, messages \in MessageLists, text \in ResponseTexts :
        LET r == chat_completion_response(c, messages, text)
        IN "raised" \notin DOMAIN r
           => /\ Len(r.choices) = 1
              /\ r.choices[1].index = 0
              /\ r.choices[1].message.role = "assistant"
              /\ r.choices[1].message.content = text
              /\ r.model = c.deployment.model_name
              /\ r.usage.prompt_tokens = WordCount(format_messages_to_prompt(messages))
              /\ r.usage.completion_tokens = WordCount(text)
              /\ r.usage.total_tokens = r.usage.prompt_tokens + r.usage.completion_tokens

\* a generation for three messages whose contents hold blanks and newlines,
\* answered with a text of three words
C30_Witness ==
    \E c \in Generating, messages \in MessageLists, text \in ResponseTexts :
        LET r == chat_completion_response(c, messages, text)
        IN /\ Len(messages) = 3
           /\ "raised" \notin DOMAIN r
           /\ r.usage.prompt_tokens = 7
           /\ r.usage.completion_tokens = 3
           /\ r.usage.total_tokens = 10

\* C31: on the single-file server, a chat completion for a deployment with
\* api_key_enabled is served (its generation is started) only when the bearer token
\* presented is the api_key of the deployment
C31_KeyRequiredWhenEnabled ==
    \A u \in DOMAIN USER_DEPLOYMENTS, a \in mps_Credentials :
        (USER_DEPLOYMENTS[u].api_key_enabled
         /\ mps_user_chat_completions_response(u, a).status_code = 200)
        => a = USER_DEPLOYMENTS[u].api_key

\* C32: a record that a create has just inserted has the status PENDING (so that
\* DEPLOYING is only ever observed after PENDING)
C32_CreatedPending ==
    [][\A u \in DOMAIN deployments' :
          (u \notin DOMAIN deployments \/ deployments'[u].created_at # deployments[u].created_at)
          => deployments'[u].status = PENDING]_vars

\* C33: whatever text the generation returns, the empty text included,
\* chat_completion gives a response with one assistant choice and raises nothing
C33_EveryTextIsWrapped ==
    \A c \in Generating, messages \in MessageLists, text \in ResponseTexts :
        LET r == chat_completion_response(c, messages, text)
        IN /\ "raised" \notin DOMAIN r
           /\ Len(r.choices) = 1
           /\ r.choices[1].message = [role |-> "assistant", content |-> text]

\* C34: a READY deployment has no error_message recorded
C34_ReadyHasNoError ==
    \A u \in DOMAIN deployments :
        Status(u) = READY => deployments[u].error_message = NoError

\* C35: every deployment in DEPLOYING has a load of its user_id in flight
C35_DeployingHasLoadInFlight ==
    \A u \in DOMAIN deployments : Status(u) = DEPLOYING => InFlight(u) # {}

\* a record in DEPLOYING whose only load is awaiting the Model Runtime
C35_Witness ==
    \E u \in DOMAIN deployments :
        /\ Status(u) = DEPLOYING
        /\ Cardinality(InFlight(u)) = 1
        /\ \A t \in InFlight(u) : t.pc = "loading"

\* C36: a step of a load whose user_id has no record stores none, and a user_id
\* gets a record only by a create, which stores a new one
C36_LoadStoresNoRecord ==
    \A t \in tasks :
        ((load_user_model_start(t) \/ load_user_model_success(t)
          \/ \E e \in LoadErrors(t.backend) : load_user_model_failure(t, e))
         /\ t.user_id \notin DOMAIN deployments)
        => t.user_id \notin DOMAIN deployments'

C36_RecordOnlyByCreate ==
    \A u \in AllUserIds :
        (u \notin DOMAIN deployments /\ u \in DOMAIN deployments')
        => /\ clock' = clock + 1
           /\ deployments'[u].created_at = clock'
           /\ \E t \in tasks' \ tasks : t.user_id = u /\ t.id = clock'

C36_NoResurrection == [][C36_LoadStoresNoRecord /\ C36_RecordOnlyByCreate]_vars

\* a load of u has succeeded after the record of u was deleted (the delete removes
\* the handle, so a handle without a record is one attached since), and u has no
\* record
C36_Witness ==
    \E u \in DOMAIN active_models : u \notin DOMAIN deployments /\ InFlight(u) = {}

\* C37: stop_deployment and delete_deployment of a user_id with no record return
\* False, answered with 404, and change nothing; after a delete that succeeded,
\* a delete of the same user_id reports not-found
C37_NotFoundReported ==
    \A u \in AllUserIds :
        u \notin DOMAIN deployments
        => /\ ~stop_deployment_result(u)
           /\ ~delete_deployment_result(u)
           /\ stop_deployment_response(u).status_code = 404
           /\ delete_deployment_response(u).status_code = 404

C37_NotFoundChangesNothing ==
    \A u \in AllUserIds :
        ((stop_deployment(u) \/ delete_deployment(u)) /\ u \notin DOMAIN deployments)
        => UNCHANGED vars

C37_SecondDeleteNotFound ==
    \A u \in AllUserIds :
        (delete_deployment(u) /\ delete_deployment_result(u))
        => /\ u \notin DOMAIN deployments'
           /\ ~(delete_deployment_result(u))'
           /\ (delete_deployment_response(u).status_code)' = 404

C37_StopDeleteNotFound ==
    []C37_NotFoundReported /\ [][C37_NotFoundChangesNothing /\ C37_SecondDeleteNotFound]_vars

\* a user_id whose record has been deleted, so that stop and delete report
\* not-found, while a model is held under it that they must leave alone
C37_Witness ==
    \E u \in AllUserIds :
        /\ u \notin DOMAIN deployments
        /\ ~stop_deployment_result(u)
        /\ delete_deployment_response(u).status_code = 404
        /\ HasHandle(u)

\* C38: stop_deployment of an existing deployment with no load in flight gives
\* STOPPED from every status, with no handle and the record retained, and a stop
\* of a deployment that a stop has left so changes nothing
C38_StopGivesStopped ==
    \A u \in DOMAIN deployments :
        (stop_deployment(u) /\ InFlight(u) = {})
        => /\ u \in DOMAIN deployments'
           /\ deployments'[u] = [deployments[u] EXCEPT !.status = STOPPED]
           /\ u \notin DOMAIN active_models'

C38_SecondStopChangesNothing ==
    \A u \in DOMAIN deployments :
        (stop_deployment(u) /\ InFlight(u) = {} /\ Status(u) = STOPPED /\ ~HasHandle(u))
        => UNCHANGED vars

C38_StopIdempotent == [][C38_StopGivesStopped /\ C38_SecondStopChangesNothing]_vars

\* a deployment whose load has failed and which has then been stopped: STOPPED
\* with the error_message of the failure, no handle and no load in flight
C38_Witness ==
    \E u \in DOMAIN deployments :
        /\ Status(u) = STOPPED
        /\ deployments[u].error_message # NoError
        /\ deployments[u].loaded_at = NoTime
        /\ ~HasHandle(u)
        /\ InFlight(u) = {}

\* C39: a deployment of the backend the loader does not implement is never READY,
\* and once the load scheduled for it has run it is in ERROR (or STOPPED), with an
\* error_message and no handle
C39_UnsupportedEndsInError ==
    \A u \in DOMAIN deployments :
        deployments[u].backend = VLLM
        => /\ Status(u) # READY
           /\ (\A t \in tasks : t.id # deployments[u].created_at)
              => /\ Status(u) \in {ERROR, STOPPED}
                 /\ deployments[u].error_message # NoError
                 /\ ~HasHandle(u)

\* the chat completions whose generation has returned
Done == {c \in chats : c.phase = "done"}

\* C40: request_count is the number of chat completions whose generation has
\* returned, and no two responses are made of the same value of request_count
C40_CountMatchesAndIdsDistinct ==
    /\ request_count = Cardinality(Done)
    /\ \A c, d \in Done : c.id # d.id => c.request_count # d.request_count
    /\ \A c \in Done : c.request_count \in 0..(request_count - 1)

\* two generations have returned while a third request is still generating, and a
\* response was made of each of the values 0 and 1
C40_Witness ==
    /\ request_count = 2
    /\ {c.request_count : c \in Done} = {0, 1}
    /\ Generating # {}

====
